---- MODULE Spec2Model ----
(***************************************************************************)
(* SimpleVector<Type> (simple_vector.h): a growable array that owns one    *)
(* ArrayPtr<Type> buffer and keeps a size and a capacity.                  *)
(*                                                                         *)
(* The model holds a fixed set of container objects.  Every public         *)
(* operation of the class is an operator over a container value            *)
(* [a_, size_, capacity_] that returns the container after the call and    *)
(* what the call did (threw, allocated, returned); one action per          *)
(* operation applies it to an object and records the call in `last`.       *)
(* A buffer index i of the code (0-based) is a_[i + 1] here.               *)
(***************************************************************************)
EXTENDS Integers, Sequences, FiniteSets, TLC

\* ------------------------------------------------------------------ bounds
Depth == 3           \* calls made in a row on a container and its twin
MaxSlots == 4        \* the buffers of all objects together have at most
                     \* MaxSlots slots

\* the objects: the container that is worked on and a second one, the other
\* operand of construction from a container, assignment and swap
Vec     == {1, 2}
Subject == {1}
\* the element type: the class never inspects an element, so a type of two
\* values shows every relocation
Type    == {0, 1}
Default == 0         \* Type{}

\* alive: the objects that are constructed and not yet destroyed; a_, size_,
\* capacity_: their fields; last: the latest call
VARIABLES alive, a_, size_, capacity_, last
vars == <<alive, a_, size_, capacity_, last>>

Max(x, y) == IF x >= y THEN x ELSE y

\* ------------------------------------------------------- container values
Obj(v) == [a_ |-> a_[v], size_ |-> size_[v], capacity_ |-> capacity_[v]]

GetSize(c)     == c.size_
GetCapacity(c) == c.capacity_
IsEmpty(c)     == GetSize(c) = 0

\* the elements begin() .. end() of a container, in order
Elems(c) == [i \in 1..GetSize(c) |-> c.a_[i]]

\* ArrayPtr<Type>(n): a buffer of n default-constructed slots
ArrayPtr(n) == [i \in 1..n |-> Default]

\* the number of allocations in ArrayPtr<Type>(n): a buffer of no slots
\* needs no storage
Allocated(n) == IF n > 0 THEN 1 ELSE 0

\* what a slot holds after its value has been moved out of it: an int keeps
\* its value, a resource-owning type is left empty
MovedFrom(x, mv) == IF mv THEN Default ELSE x

\* the outcome of a call: the container after it, whether it threw, how many
\* buffers it allocated, and the index it returned (-1: none)
Done(c, allocs)  == [obj |-> c, thrown |-> "none", allocs |-> allocs, ret |-> -1]
BadAlloc(c)      == [obj |-> c, thrown |-> "bad_alloc", allocs |-> 0, ret |-> -1]

\* SimpleVector() noexcept = default
DefaultCtor == [a_ |-> ArrayPtr(0), size_ |-> 0, capacity_ |-> 0]

\* SimpleVector(size_t size, const Type& value); SimpleVector(size_t size)
\* delegates to it with Type{}
SizedCtor(size, value, ok) ==
  IF ~ok THEN BadAlloc(DefaultCtor)
  ELSE Done([a_ |-> [i \in 1..size |-> value], size_ |-> size,
             capacity_ |-> size], Allocated(size))

\* SimpleVector(std::initializer_list<Type> init)
InitListCtor(init, ok) ==
  IF ~ok THEN BadAlloc(DefaultCtor)
  ELSE Done([a_ |-> [i \in 1..Len(init) |-> init[i]], size_ |-> Len(init),
             capacity_ |-> Len(init)], Allocated(Len(init)))

\* CopyCtor with the buffer sized to the source's size
CopyCtor_SizedToSize(other, ok) ==
  IF ~ok THEN BadAlloc(DefaultCtor)
  ELSE Done([a_ |-> [i \in 1..GetSize(other) |-> other.a_[i]],
             size_ |-> GetSize(other),
             capacity_ |-> GetSize(other)], Allocated(GetSize(other)))

\* SimpleVector(const SimpleVector& other)
CopyCtor(other, ok) ==
  IF ~ok THEN BadAlloc(DefaultCtor)
  ELSE Done([a_ |-> [i \in 1..GetCapacity(other) |->
                       IF i <= GetSize(other) THEN other.a_[i]
                       ELSE ArrayPtr(GetCapacity(other))[i]],
             size_ |-> GetSize(other),
             capacity_ |-> GetCapacity(other)], Allocated(GetCapacity(other)))

\* MoveCtor with the buffer sized to the source's size
MoveCtor_SizedToSize(other) ==
  [a_ |-> [i \in 1..GetSize(other) |-> other.a_[i]],
   size_ |-> GetSize(other),
   capacity_ |-> GetSize(other)]

\* SimpleVector(SimpleVector&& other) noexcept: the new object
MoveCtor(other) ==
  [a_ |-> [i \in 1..GetCapacity(other) |->
             IF i <= GetSize(other) THEN other.a_[i]
             ELSE ArrayPtr(GetCapacity(other))[i]],
   size_ |-> GetSize(other),
   capacity_ |-> GetCapacity(other)]

\* a moved-from container that keeps its recorded capacity
MoveCtorSource_KeepsCapacity(other, mv) ==
  [a_ |-> [i \in 1..Len(other.a_) |->
             IF i <= GetSize(other) THEN MovedFrom(other.a_[i], mv)
             ELSE other.a_[i]],
   size_ |-> 0,
   capacity_ |-> GetCapacity(other)]

\* SimpleVector(SimpleVector&& other) noexcept: what is left of other
MoveCtorSource(other, mv) ==
  [a_ |-> [i \in 1..Len(other.a_) |->
             IF i <= GetSize(other) THEN MovedFrom(other.a_[i], mv)
             ELSE other.a_[i]],
   size_ |-> 0,
   capacity_ |-> 0]

\* explicit SimpleVector(const ReserveProxyObj obj)
ReserveCtor(cap, ok) ==
  IF ~ok THEN BadAlloc(DefaultCtor)
  ELSE Done([a_ |-> ArrayPtr(cap), size_ |-> 0, capacity_ |-> cap],
            Allocated(cap))

\* Clear that gives the buffer up
Clear_Releases(c) == [a_ |-> ArrayPtr(0), size_ |-> 0, capacity_ |-> 0]

\* void Clear() noexcept
Clear(c) == [c EXCEPT !.size_ = 0]

\* Resize that forgets capacity_ = new_capacity
Resize_KeepsCapacity(c, new_size, ok) ==
  IF new_size <= GetCapacity(c)
  THEN Done([c EXCEPT
               !.a_ = [i \in 1..Len(c.a_) |->
                         IF i > GetSize(c) /\ i <= new_size
                         THEN Default ELSE c.a_[i]],
               !.size_ = new_size], 0)
  ELSE LET new_capacity == Max(GetCapacity(c) * 2, new_size)
       IN IF ~ok THEN BadAlloc(c)
          ELSE Done([a_ |-> [i \in 1..new_capacity |->
                               IF i <= GetSize(c) THEN c.a_[i] ELSE Default],
                     size_ |-> new_size,
                     capacity_ |-> GetCapacity(c)], 1)

\* Resize that grows to exactly new_size
Resize_ExactFit(c, new_size, ok) ==
  IF new_size <= GetCapacity(c)
  THEN Done([c EXCEPT
               !.a_ = [i \in 1..Len(c.a_) |->
                         IF i > GetSize(c) /\ i <= new_size
                         THEN Default ELSE c.a_[i]],
               !.size_ = new_size], 0)
  ELSE IF ~ok THEN BadAlloc(c)
       ELSE Done([a_ |-> [i \in 1..new_size |->
                            IF i <= GetSize(c) THEN c.a_[i] ELSE Default],
                  size_ |-> new_size,
                  capacity_ |-> new_size], 1)

\* Resize that only sets size_ when the buffer is large enough
Resize_NoReset(c, new_size, ok) ==
  IF new_size <= GetCapacity(c)
  THEN Done([c EXCEPT !.size_ = new_size], 0)
  ELSE LET new_capacity == Max(GetCapacity(c) * 2, new_size)
       IN IF ~ok THEN BadAlloc(c)
          ELSE Done([a_ |-> [i \in 1..new_capacity |->
                               IF i <= GetSize(c) THEN c.a_[i] ELSE Default],
                     size_ |-> new_size,
                     capacity_ |-> new_capacity], 1)

\* void Resize(size_t new_size)
Resize(c, new_size, ok) ==
  IF new_size <= GetCapacity(c)
  THEN Done([c EXCEPT
               !.a_ = [i \in 1..Len(c.a_) |->
                         IF i > GetSize(c) /\ i <= new_size
                         THEN Default ELSE c.a_[i]],
               !.size_ = new_size], 0)
  ELSE LET new_capacity == Max(GetCapacity(c) * 2, new_size)
           new_a == [i \in 1..new_capacity |->
                       IF i <= GetSize(c) THEN c.a_[i]
                       ELSE IF i <= new_size THEN Default
                       ELSE ArrayPtr(new_capacity)[i]]
       IN IF ~ok THEN BadAlloc(c)
          ELSE Done([a_ |-> new_a, size_ |-> new_size,
                     capacity_ |-> new_capacity], 1)

\* ResizeForOneElement that counts the element before making room for it
ResizeForOneElement_EagerSize(c, ok) ==
  IF GetSize(c) = GetCapacity(c)
  THEN LET r == Resize(c, GetSize(c) + 1, ok)
       IN IF r.thrown # "none"
          THEN BadAlloc([c EXCEPT !.size_ = @ + 1])
          ELSE r
  ELSE Done([c EXCEPT !.size_ = @ + 1], 0)

\* void ResizeForOneElement()
ResizeForOneElement(c, ok) ==
  IF GetSize(c) = GetCapacity(c)
  THEN Resize(c, GetSize(c) + 1, ok)
  ELSE Done([c EXCEPT !.size_ = @ + 1], 0)

\* Reserve that grows by the doubling rule of Resize
Reserve_Doubles(c, new_capacity, ok) ==
  IF new_capacity > GetCapacity(c)
  THEN LET grown == Max(GetCapacity(c) * 2, new_capacity)
       IN IF ~ok THEN BadAlloc(c)
          ELSE Done([c EXCEPT
                       !.a_ = [i \in 1..grown |->
                                 IF i <= GetSize(c) THEN c.a_[i]
                                 ELSE Default],
                       !.capacity_ = grown], 1)
  ELSE Done(c, 0)

\* Reserve that records the new capacity and keeps the old buffer
Reserve_KeepsBuffer(c, new_capacity, ok) ==
  IF new_capacity > GetCapacity(c)
  THEN IF ~ok THEN BadAlloc(c)
       ELSE Done([c EXCEPT !.capacity_ = new_capacity], 1)
  ELSE Done(c, 0)

\* void Reserve(size_t new_capacity)
Reserve(c, new_capacity, ok) ==
  IF new_capacity > GetCapacity(c)
  THEN IF ~ok THEN BadAlloc(c)
       ELSE Done([c EXCEPT
                    !.a_ = [i \in 1..new_capacity |->
                              IF i <= GetSize(c) THEN c.a_[i]
                              ELSE ArrayPtr(new_capacity)[i]],
                    !.capacity_ = new_capacity], 1)
  ELSE Done(c, 0)

\* PushBack that writes to the slot that was last before the call
PushBack_StaleEnd(c, item, ok) ==
  LET r == ResizeForOneElement(c, ok)
  IN IF r.thrown # "none" \/ GetSize(c) = 0 THEN r
     ELSE [r EXCEPT !.obj.a_[GetSize(c)] = item]

\* void PushBack(const Type& item); void PushBack(Type&& item)
PushBack(c, item, ok) ==
  LET r == ResizeForOneElement(c, ok)
  IN IF r.thrown # "none" THEN r
     ELSE [r EXCEPT !.obj.a_[GetSize(r.obj)] = item]

\* GetPosToInsert that shifts with a forward std::copy, which overwrites
\* each element before it is read
GetPosToInsert_ForwardCopy(c, pos, ok, mv) ==
  LET r == ResizeForOneElement(c, ok)
      n == GetSize(r.obj)
  IN IF r.thrown # "none" THEN r
     ELSE [r EXCEPT
             !.obj.a_ = [i \in 1..Len(r.obj.a_) |->
                           IF n > 1 /\ i > pos + 1 /\ i <= n
                           THEN r.obj.a_[pos + 1]
                           ELSE r.obj.a_[i]],
             !.ret = pos]

\* Type *GetPosToInsert(const Type* pos)
GetPosToInsert(c, pos, ok, mv) ==
  LET distance_to_pos == pos
      r == ResizeForOneElement(c, ok)
      n == GetSize(r.obj)
      pos_to_insert == distance_to_pos
  IN IF r.thrown # "none" THEN r
     ELSE [r EXCEPT
             !.obj.a_ = [i \in 1..Len(r.obj.a_) |->
                           IF n > 1 /\ i > pos_to_insert + 1 /\ i <= n
                           THEN r.obj.a_[i - 1]
                           ELSE IF n > 1 /\ i = pos_to_insert + 1 /\ i < n
                           THEN MovedFrom(r.obj.a_[i], mv)
                           ELSE r.obj.a_[i]],
             !.ret = pos_to_insert]

\* Insert that returns the position after the inserted element
Insert_ReturnsNext(c, pos, value, ok, mv) ==
  LET r == GetPosToInsert(c, pos, ok, mv)
  IN IF r.thrown # "none" THEN r
     ELSE [r EXCEPT !.obj.a_[r.ret + 1] = value, !.ret = @ + 1]

\* Iterator Insert(ConstIterator pos, const Type& value) and the Type&& one
Insert(c, pos, value, ok, mv) ==
  LET r == GetPosToInsert(c, pos, ok, mv)
  IN IF r.thrown # "none" THEN r
     ELSE [r EXCEPT !.obj.a_[r.ret + 1] = value]

\* void PopBack() noexcept
PopBack(c) == [c EXCEPT !.size_ = @ - 1]

\* Erase that drops the last element instead of closing the gap
Erase_NoShift(c, pos, mv) ==
  [Done([c EXCEPT !.size_ = @ - 1], 0) EXCEPT !.ret = pos]

\* Iterator Erase(ConstIterator pos)
Erase(c, pos, mv) ==
  LET distance_to_pos == pos
      pos_to_erase == distance_to_pos
      n == GetSize(c)
  IN [Done([c EXCEPT
              !.a_ = [i \in 1..Len(c.a_) |->
                        IF i >= pos_to_erase + 1 /\ i < n THEN c.a_[i + 1]
                        ELSE IF i = n /\ pos_to_erase + 1 < n
                        THEN MovedFrom(c.a_[i], mv)
                        ELSE c.a_[i]],
              !.size_ = @ - 1], 0)
      EXCEPT !.ret = pos_to_erase]

\* swap that leaves the two capacities where they were
swap_KeepsCapacity(c, other) ==
  [obj |-> [other EXCEPT !.capacity_ = c.capacity_],
   other |-> [c EXCEPT !.capacity_ = other.capacity_]]

\* void swap(SimpleVector& other) noexcept; obj: *this after the call,
\* other: the argument after the call
swap(c, other) ==
  [obj |-> [a_ |-> other.a_, size_ |-> other.size_,
            capacity_ |-> other.capacity_],
   other |-> [a_ |-> c.a_, size_ |-> c.size_, capacity_ |-> c.capacity_]]

\* operator= that copies and swaps an empty right-hand side too
Assign_AlwaysCopies(c, rhs, same, ok) ==
  IF ~same
  THEN LET rhs_copy == CopyCtor(rhs, ok)
       IN IF rhs_copy.thrown # "none" THEN BadAlloc(c)
          ELSE Done(swap(c, rhs_copy.obj).obj, rhs_copy.allocs)
  ELSE Done(c, 0)

\* SimpleVector& operator=(const SimpleVector& rhs); same: this == &rhs
Assign(c, rhs, same, ok) ==
  IF ~same
  THEN IF IsEmpty(rhs) THEN Done(Clear(c), 0)
       ELSE LET rhs_copy == CopyCtor(rhs, ok)
            IN IF rhs_copy.thrown # "none" THEN BadAlloc(c)
               ELSE Done(swap(c, rhs_copy.obj).obj, rhs_copy.allocs)
  ELSE Done(c, 0)

\* At that checks the index against the capacity
At_ChecksCapacity(c, index) ==
  IF index >= GetCapacity(c)
  THEN [obj |-> c, thrown |-> "out_of_range", allocs |-> 0, ret |-> -1]
  ELSE [obj |-> c, thrown |-> "none", allocs |-> 0, ret |-> c.a_[index + 1]]

\* Type& At(size_t index): the element, or out_of_range
At(c, index) ==
  IF index >= GetSize(c)
  THEN [obj |-> c, thrown |-> "out_of_range", allocs |-> 0, ret |-> -1]
  ELSE [obj |-> c, thrown |-> "none", allocs |-> 0, ret |-> c.a_[index + 1]]

\* operator== that also compares the capacities
OpEq_ComparesCapacity(lhs, rhs, same) ==
  \/ same
  \/ /\ GetSize(lhs) = GetSize(rhs)
     /\ GetCapacity(lhs) = GetCapacity(rhs)
     /\ \A i \in 1..GetSize(lhs) : lhs.a_[i] = rhs.a_[i]

\* bool operator==(lhs, rhs); same: &lhs == &rhs
OpEq(lhs, rhs, same) ==
  \/ same
  \/ /\ GetSize(lhs) = GetSize(rhs)
     /\ \A i \in 1..GetSize(lhs) : lhs.a_[i] = rhs.a_[i]

\* bool operator!=(lhs, rhs)
OpNe(lhs, rhs, same) == ~OpEq(lhs, rhs, same)

\* std::lexicographical_compare(lhs.begin(), lhs.end(), rhs.begin(),
\* rhs.end()), from the i-th element of both on
RECURSIVE LexicographicalCompare(_, _, _)
LexicographicalCompare(lhs, rhs, i) ==
  IF i > GetSize(lhs) \/ i > GetSize(rhs)
  THEN i > GetSize(lhs) /\ i <= GetSize(rhs)
  ELSE IF lhs.a_[i] < rhs.a_[i] THEN TRUE
  ELSE IF rhs.a_[i] < lhs.a_[i] THEN FALSE
  ELSE LexicographicalCompare(lhs, rhs, i + 1)

\* operator< with the two ranges in the wrong order
OpLt_Swapped(lhs, rhs) == LexicographicalCompare(rhs, lhs, 1)

\* bool operator<(lhs, rhs)
OpLt(lhs, rhs) == LexicographicalCompare(lhs, rhs, 1)

\* bool operator<=(lhs, rhs)
OpLe(lhs, rhs) == ~OpLt(rhs, lhs)

\* bool operator>(lhs, rhs)
OpGt(lhs, rhs) == OpLt(rhs, lhs)

\* bool operator>=(lhs, rhs)
OpGe(lhs, rhs) == OpLe(rhs, lhs)

\* ------------------------------------------------------------------ state
NoCall == [op |-> "none", v |-> 0, o |-> 0, n |-> 0, item |-> 0,
           thrown |-> "none", allocs |-> 0, ret |-> -1]

\* the record of a call: operation, object, other object, numeric argument,
\* element argument and outcome; a call that ran out of memory records only
\* the operation and the object
Call(op, v, o, n, item, r) ==
  IF r.thrown = "bad_alloc"
  THEN [NoCall EXCEPT !.op = op, !.v = v, !.thrown = r.thrown]
  ELSE [op |-> op, v |-> v, o |-> o, n |-> n, item |-> item,
        thrown |-> r.thrown, allocs |-> r.allocs, ret |-> r.ret]

\* the number of slots of the buffers f of all objects
Slots(f) == Len(f[1]) + Len(f[2])

\* object v becomes c; every other object is left alone
Store(v, c) ==
  /\ a_' = [a_ EXCEPT ![v] = c.a_]
  /\ size_' = [size_ EXCEPT ![v] = c.size_]
  /\ capacity_' = [capacity_ EXCEPT ![v] = c.capacity_]

\* objects v and o become c and d
Store2(v, c, o, d) ==
  /\ a_' = [a_ EXCEPT ![v] = c.a_, ![o] = d.a_]
  /\ size_' = [size_ EXCEPT ![v] = c.size_, ![o] = d.size_]
  /\ capacity_' = [capacity_ EXCEPT ![v] = c.capacity_, ![o] = d.capacity_]
  /\ Slots(a_') <= MaxSlots

\* whether the call with outcome r on object v stays within MaxSlots
Fits(v, r) == Slots([a_ EXCEPT ![v] = r.obj.a_]) <= MaxSlots

Init ==
  /\ alive = {}
  /\ a_ = [v \in Vec |-> DefaultCtor.a_]
  /\ size_ = [v \in Vec |-> DefaultCtor.size_]
  /\ capacity_ = [v \in Vec |-> DefaultCtor.capacity_]
  /\ last = NoCall

Seqs == UNION {[1..k -> Type] : k \in 0..MaxSlots}

\* ---------------------------------------------------------------- actions
\* a method call on object v: r is its outcome, fit its outcome when no
\* allocation fails (only a call that allocates has another outcome)
Method(op, v, o, n, item, r, fit) ==
  /\ v \in alive
  /\ Fits(v, fit)
  /\ Store(v, r.obj)
  /\ last' = Call(op, v, o, n, item, r)
  /\ UNCHANGED alive

\* a constructor builds object v; when it throws, no object is built
Construct(op, v, o, n, item, r, fit) ==
  /\ v \notin alive
  /\ Fits(v, fit)
  /\ IF r.thrown = "none"
     THEN Store(v, r.obj) /\ alive' = alive \cup {v}
     ELSE UNCHANGED <<alive, a_, size_, capacity_>>
  /\ last' = Call(op, v, o, n, item, r)

\* ~SimpleVector(): the object's lifetime ends and its buffer is released
Destroy ==
  \E v \in alive :
    /\ alive' = alive \ {v}
    /\ Store(v, DefaultCtor)
    /\ last' = Call("Destroy", v, 0, 0, 0, Done(DefaultCtor, 0))

CallDefaultCtor ==
  \E v \in Vec :
    Construct("DefaultCtor", v, 0, 0, 0, Done(DefaultCtor, 0),
              Done(DefaultCtor, 0))

CallSizedCtor ==
  \E v \in Vec, n \in 0..MaxSlots, value \in Type, ok \in BOOLEAN :
    Construct("SizedCtor", v, 0, n, value, SizedCtor(n, value, ok),
              SizedCtor(n, value, TRUE))

CallInitListCtor ==
  \E v \in Vec, init \in Seqs, ok \in BOOLEAN :
    Construct("InitListCtor", v, 0, Len(init), 0, InitListCtor(init, ok),
              InitListCtor(init, TRUE))

CallReserveCtor ==
  \E v \in Vec, n \in 0..MaxSlots, ok \in BOOLEAN :
    Construct("ReserveCtor", v, 0, n, 0, ReserveCtor(n, ok),
              ReserveCtor(n, TRUE))

CallCopyCtor ==
  \E v \in Vec, o \in Vec, ok \in BOOLEAN :
    /\ o \in alive
    /\ Construct("CopyCtor", v, o, 0, 0, CopyCtor(Obj(o), ok),
                 CopyCtor(Obj(o), TRUE))

\* noexcept: a failed allocation ends the program, there is no state after it
CallMoveCtor ==
  \E v \in Vec, o \in Vec, mv \in BOOLEAN :
    /\ v \notin alive /\ o \in alive
    /\ Store2(v, MoveCtor(Obj(o)), o, MoveCtorSource(Obj(o), mv))
    /\ alive' = alive \cup {v}
    /\ last' = Call("MoveCtor", v, o, 0, 0,
                    Done(MoveCtor(Obj(o)), Allocated(GetCapacity(Obj(o)))))

CallAssign ==
  \E v \in Vec, o \in alive, ok \in BOOLEAN :
    Method("Assign", v, o, 0, 0, Assign(Obj(v), Obj(o), v = o, ok),
           Assign(Obj(v), Obj(o), v = o, TRUE))

CallReserve ==
  \E v \in Subject, n \in 0..MaxSlots, ok \in BOOLEAN :
    Method("Reserve", v, 0, n, 0, Reserve(Obj(v), n, ok),
           Reserve(Obj(v), n, TRUE))

CallPushBack ==
  \E v \in Subject, item \in Type, ok \in BOOLEAN :
    Method("PushBack", v, 0, 0, item, PushBack(Obj(v), item, ok),
           PushBack(Obj(v), item, TRUE))

\* assert(pos >= begin() && pos <= end())
CallInsert ==
  \E v \in Subject, pos \in 0..MaxSlots, value \in Type, ok, mv \in BOOLEAN :
    /\ pos <= size_[v]
    /\ Method("Insert", v, 0, pos, value, Insert(Obj(v), pos, value, ok, mv),
              Insert(Obj(v), pos, value, TRUE, mv))

\* assert(!IsEmpty())
CallPopBack ==
  \E v \in Subject :
    /\ ~IsEmpty(Obj(v))
    /\ Method("PopBack", v, 0, 0, 0, Done(PopBack(Obj(v)), 0),
              Done(PopBack(Obj(v)), 0))

\* assert(pos >= begin() && pos < end())
CallErase ==
  \E v \in Subject, pos \in 0..MaxSlots, mv \in BOOLEAN :
    /\ pos < size_[v]
    /\ Method("Erase", v, 0, pos, 0, Erase(Obj(v), pos, mv),
              Erase(Obj(v), pos, mv))

\* v.swap(o)
CallSwap ==
  \E v \in alive, o \in alive :
    LET r == swap(Obj(v), Obj(o))
    IN /\ Store2(v, r.obj, o, r.other)
       /\ UNCHANGED alive
       /\ last' = Call("swap", v, o, 0, 0, Done(r.obj, 0))

CallAt ==
  \E v \in Subject, index \in 0..MaxSlots :
    Method("At", v, 0, index, 0, At(Obj(v), index), At(Obj(v), index))

CallClear ==
  \E v \in Subject :
    Method("Clear", v, 0, 0, 0, Done(Clear(Obj(v)), 0),
           Done(Clear(Obj(v)), 0))

CallResize ==
  \E v \in Subject, n \in 0..MaxSlots, ok \in BOOLEAN :
    Method("Resize", v, 0, n, 0, Resize(Obj(v), n, ok),
           Resize(Obj(v), n, TRUE))

Next ==
  \/ CallDefaultCtor
  \/ CallSizedCtor
  \/ CallInitListCtor
  \/ CallReserveCtor
  \/ CallCopyCtor
  \/ CallMoveCtor
  \/ CallAssign
  \/ CallReserve
  \/ CallPushBack
  \/ CallInsert
  \/ CallPopBack
  \/ CallErase
  \/ CallSwap
  \/ CallAt
  \/ CallClear
  \/ CallResize
  \/ Destroy

Spec == Init /\ [][Next]_vars

TypeOK ==
  /\ alive \subseteq Vec
  /\ \A v \in Vec : a_[v] \in Seqs
  /\ size_ \in [Vec -> 0..MaxSlots]
  /\ capacity_ \in [Vec -> 0..MaxSlots]

\* ----------------------------------------------------------------- claims
\* the live elements of object v, in order
Live(v) == Elems(Obj(v))

\* the latest call was op on object v and did not throw
Did(op, v) == last.op = op /\ last.v = v /\ last.thrown = "none"

\* C1: in every reachable state every object, a moved-from one included,
\* has 0 <= size <= capacity.
C1_SizeWithinCapacity ==
  \A v \in Vec : 0 <= size_[v] /\ size_[v] <= capacity_[v]

\* a move constructor has emptied a source that held elements
C1_Witness ==
  /\ last.op = "MoveCtor"
  /\ size_[last.v] > 0
  /\ size_[last.o] = 0 /\ capacity_[last.o] = 0 /\ Len(a_[last.o]) > 0

\* C2: a PushBack that returns increases size by exactly 1; capacity is
\* unchanged when size < capacity before the call and becomes
\* max(2 * capacity, size + 1) when size = capacity.
C2_PushBackSizeAndCapacity ==
  [][\A v \in Vec :
       Did("PushBack", v)' =>
         /\ size_'[v] = size_[v] + 1
         /\ capacity_'[v] =
              IF size_[v] < capacity_[v] THEN capacity_[v]
              ELSE Max(2 * capacity_[v], size_[v] + 1)]_vars

\* a PushBack on a full container of capacity 2 has doubled it to 4
C2_Witness ==
  \E v \in Vec :
    /\ Did("PushBack", v) /\ last.allocs = 1
    /\ size_[v] = 3 /\ capacity_[v] = 4

\* C3: after PushBack(x) on a container holding s the container holds s
\* followed by x, whether or not the buffer was reallocated.
C3_PushBackAppends ==
  [][\A v \in Vec :
       Did("PushBack", v)' => Live(v)' = Append(Live(v), last'.item)]_vars

\* a PushBack has reallocated a buffer that held a non-default element and
\* appended an element that differs from it
C3_Witness ==
  \E v \in Vec :
    /\ Did("PushBack", v) /\ last.allocs = 1
    /\ size_[v] >= 3
    /\ a_[v][1] # Default
    /\ a_[v][size_[v]] # a_[v][size_[v] - 1]

\* C4: Insert of value at index i, 0 <= i <= size, on a container holding s
\* yields s[0..i) ++ [value] ++ s[i..size), size + 1, and returns index i.
C4_InsertAtPosition ==
  [][\A v \in Vec :
       Did("Insert", v)' =>
         LET i == last'.n
             s == Live(v)
         IN /\ Live(v)' = SubSeq(s, 1, i) \o <<last'.item>>
                            \o SubSeq(s, i + 1, Len(s))
            /\ size_'[v] = size_[v] + 1
            /\ last'.ret = i]_vars

\* an Insert strictly inside a container has shifted at least two elements
\* that differ from each other
C4_Witness ==
  \E v \in Vec :
    /\ Did("Insert", v)
    /\ last.n >= 1 /\ last.n + 3 <= size_[v]
    /\ a_[v][last.n + 2] # a_[v][last.n + 3]

\* C5: Erase at index i, 0 <= i < size, on a container holding s yields
\* s[0..i) ++ s[i+1..size), size - 1, the same capacity, and returns index i
\* (which is the end when the last element was erased).
C5_EraseAtPosition ==
  [][\A v \in Vec :
       Did("Erase", v)' =>
         LET i == last'.n
             s == Live(v)
         IN /\ Live(v)' = SubSeq(s, 1, i) \o SubSeq(s, i + 2, Len(s))
            /\ size_'[v] = size_[v] - 1
            /\ capacity_'[v] = capacity_[v]
            /\ last'.ret = i
            /\ (i = size_[v] - 1 => last'.ret = size_'[v])]_vars

\* an Erase has closed a gap in front of two elements that differ
C5_Witness ==
  \E v \in Vec :
    /\ Did("Erase", v)
    /\ last.n + 2 <= size_[v]
    /\ a_[v][last.n + 1] # a_[v][last.n + 2]

\* C6: At(index) throws out_of_range whenever index >= size, also when the
\* slot exists and holds a stale value; whenever index < size it returns the
\* element at index; either way the container is unchanged.
C6_CheckedAccess ==
  [][\A v \in Vec :
       (last'.op = "At" /\ last'.v = v) =>
         /\ last'.n >= size_[v] => last'.thrown = "out_of_range"
         /\ last'.n < size_[v] =>
              last'.thrown = "none" /\ last'.ret = a_[v][last'.n + 1]
         /\ Obj(v)' = Obj(v)]_vars

\* At(size) has thrown on a slot inside the buffer that holds a stale,
\* non-default value
C6_Witness ==
  \E v \in Vec :
    /\ last.op = "At" /\ last.v = v /\ last.thrown = "out_of_range"
    /\ last.n = size_[v] /\ last.n < capacity_[v]
    /\ a_[v][last.n + 1] # Default

\* C7: after Resize(n) on a container of size s: size = n, the elements at
\* indices < min(s, n) are unchanged, every element in [s, n) is Type{},
\* capacity is unchanged when n <= capacity and max(2 * capacity, n)
\* otherwise.
C7_Resize ==
  [][\A v \in Vec :
       Did("Resize", v)' =>
         LET n == last'.n
             s == size_[v]
         IN /\ size_'[v] = n
            /\ \A i \in 1..(IF s < n THEN s ELSE n) : a_'[v][i] = a_[v][i]
            /\ \A i \in (s + 1)..n : a_'[v][i] = Default
            /\ capacity_'[v] =
                 IF n <= capacity_[v] THEN capacity_[v]
                 ELSE Max(2 * capacity_[v], n)]_vars

\* a Resize has grown a container inside its buffer, behind an element that
\* is not Type{}
C7_Witness ==
  \E v \in Vec :
    /\ Did("Resize", v) /\ last.allocs = 0
    /\ last.n = size_[v] /\ size_[v] >= 2
    /\ a_[v][1] # Default /\ a_[v][size_[v]] = Default

\* C8: Reserve(n) makes the capacity exactly n when n > capacity and leaves
\* it unchanged otherwise; size and the elements are unchanged.
C8_Reserve ==
  [][\A v \in Vec :
       Did("Reserve", v)' =>
         /\ capacity_'[v] =
              IF last'.n > capacity_[v] THEN last'.n ELSE capacity_[v]
         /\ size_'[v] = size_[v]
         /\ Live(v)' = Live(v)]_vars

\* a Reserve has grown a container that holds elements to a capacity that
\* is not twice the old one
C8_Witness ==
  \E v \in Vec :
    /\ Did("Reserve", v) /\ last.allocs = 1
    /\ capacity_[v] = 3 /\ size_[v] = 2 /\ a_[v][2] # Default

\* C9: when the allocation fails in PushBack, Insert, Resize, Reserve or
\* copy assignment, size, capacity and elements of every object are what
\* they were before the call.
C9_FailedAllocationChangesNothing ==
  [][(/\ last'.thrown = "bad_alloc"
      /\ last'.op \in {"PushBack", "Insert", "Resize", "Reserve", "Assign"})
       => \A v \in Vec :
            /\ size_'[v] = size_[v]
            /\ capacity_'[v] = capacity_[v]
            /\ Live(v)' = Live(v)]_vars

\* a PushBack on a full, non-empty container has run out of memory
C9_Witness ==
  /\ last.op = "PushBack" /\ last.thrown = "bad_alloc"
  /\ size_[last.v] = capacity_[last.v] /\ size_[last.v] > 0

\* C10: a copy-constructed container has the source's size, the source's
\* capacity and the source's elements and compares equal to it; the source
\* is unchanged; and a call on one object changes no other object, unless it
\* is a swap with it or a move from it.
C10_CopyConstruction ==
  [][/\ \A v \in Vec, o \in Vec :
          (Did("CopyCtor", v)' /\ last'.o = o) =>
            /\ size_'[v] = size_[o]
            /\ capacity_'[v] = capacity_[o]
            /\ Live(v)' = Live(o)
            /\ OpEq(Obj(v)', Obj(o)', FALSE)
            /\ Obj(o)' = Obj(o)
     /\ \A w \in Vec :
          (w # last'.v /\ ~(last'.op \in {"swap", "MoveCtor"} /\ w = last'.o))
            => Obj(w)' = Obj(w)]_vars

\* a copy has been made of a container with elements and spare capacity
C10_Witness ==
  \E v \in Vec :
    /\ Did("CopyCtor", v)
    /\ size_[v] >= 1 /\ size_[v] < capacity_[v]
    /\ a_[v][1] # Default

\* C11: move construction leaves the source with size 0 and capacity 0,
\* observably empty, and gives the new object the size, the capacity and the
\* elements the source had.
C11_MoveConstruction ==
  [][\A v \in Vec, o \in Vec :
       (Did("MoveCtor", v)' /\ last'.o = o) =>
         /\ size_'[o] = 0 /\ capacity_'[o] = 0 /\ IsEmpty(Obj(o)')
         /\ size_'[v] = size_[o]
         /\ capacity_'[v] = capacity_[o]
         /\ Live(v)' = Live(o)]_vars

\* a container with elements and spare capacity has been moved from
C11_Witness ==
  \E v \in Vec :
    /\ Did("MoveCtor", v)
    /\ size_[v] >= 1 /\ size_[v] < capacity_[v]
    /\ a_[v][1] # Default
    /\ size_[last.o] = 0 /\ capacity_[last.o] = 0

\* C12: move construction takes over the buffer of the source: it allocates
\* no buffer, the new object's buffer is the one the source owned, slot for
\* slot, and the source owns no buffer afterwards.
C12_MoveTakesBuffer ==
  [][\A v \in Vec, o \in Vec :
       (Did("MoveCtor", v)' /\ last'.o = o) =>
         /\ last'.allocs = 0
         /\ a_'[v] = a_[o]
         /\ Len(a_'[o]) = 0]_vars

\* C13: copy assignment a = b between two objects: when b is empty, a ends
\* with size 0 and keeps its capacity and its buffer, without an allocation;
\* otherwise a ends with b's size, capacity and elements; b is unchanged;
\* a = a changes nothing.
C13_CopyAssignment ==
  [][\A v \in Vec, o \in Vec :
       (Did("Assign", v)' /\ last'.o = o) =>
         IF v = o THEN Obj(v)' = Obj(v)
         ELSE /\ Obj(o)' = Obj(o)
              /\ IF size_[o] = 0
                 THEN /\ size_'[v] = 0
                      /\ capacity_'[v] = capacity_[v]
                      /\ a_'[v] = a_[v]
                      /\ last'.allocs = 0
                 ELSE /\ size_'[v] = size_[o]
                      /\ capacity_'[v] = capacity_[o]
                      /\ Live(v)' = Live(o)]_vars

\* an empty container with a buffer has been assigned to a container that
\* has a larger buffer with a stale element in it
C13_Witness ==
  \E v \in Vec :
    /\ Did("Assign", v) /\ last.o # v
    /\ size_[last.o] = 0 /\ capacity_[last.o] >= 1
    /\ size_[v] = 0 /\ capacity_[v] > capacity_[last.o]
    /\ a_[v][1] # Default

\* C14: Insert of any value at any index 0..size followed by Erase at the
\* returned position restores the elements and the size the container had
\* before the Insert.
C14_InsertThenErase ==
  [][\A v \in Vec :
       Did("Insert", v)' =>
         \A mv \in BOOLEAN :
           LET erased == Erase(Obj(v)', last'.ret, mv)
           IN /\ Elems(erased.obj) = Live(v)
              /\ GetSize(erased.obj) = size_[v]]_vars

\* an Insert strictly inside a full container has reallocated it, in front
\* of an element that differs from the inserted one
C14_Witness ==
  \E v \in Vec :
    /\ Did("Insert", v) /\ last.allocs = 1
    /\ last.ret >= 1 /\ last.ret + 2 <= size_[v]
    /\ a_[v][last.ret + 1] # a_[v][last.ret + 2]

\* the outcome of PushBack of each element of items in turn, with the
\* allocations added up
RECURSIVE PushAll(_, _)
PushAll(r, items) ==
  IF items = <<>> THEN r
  ELSE LET next == PushBack(r.obj, Head(items), TRUE)
       IN PushAll([next EXCEPT !.allocs = @ + r.allocs], Tail(items))

\* C15: Clear sets size to 0 and leaves the capacity and the buffer as they
\* are; a second Clear changes nothing more; and appending up to the old
\* capacity after a Clear neither allocates nor changes the capacity.
C15_Clear ==
  [][\A v \in Vec :
       Did("Clear", v)' =>
         /\ size_'[v] = 0
         /\ capacity_'[v] = capacity_[v]
         /\ a_'[v] = a_[v]
         /\ Clear(Obj(v)') = Obj(v)'
         /\ \A items \in Seqs :
              Len(items) <= capacity_[v] =>
                LET r == PushAll(Done(Obj(v)', 0), items)
                IN /\ GetCapacity(r.obj) = capacity_[v]
                   /\ r.allocs = 0
                   /\ Elems(r.obj) = items]_vars

\* a Clear has emptied a container of capacity 2 or more that held an
\* element that is not Type{}
C15_Witness ==
  \E v \in Vec :
    /\ Did("Clear", v)
    /\ size_[v] = 0 /\ capacity_[v] >= 2
    /\ a_[v][1] # Default

\* C16: operator== on two containers is true exactly when their live
\* element sequences are the same (same size, equal elements at every index
\* below it), whatever their capacities and stale slots; operator!= is its
\* negation.
C16_Equality ==
  \A v \in alive, w \in alive :
    /\ OpEq(Obj(v), Obj(w), v = w) <=> Live(v) = Live(w)
    /\ OpNe(Obj(v), Obj(w), v = w) <=> Live(v) # Live(w)

\* two containers hold the same elements in buffers of different capacity,
\* one with a stale element that is not Type{} behind them
C16_Witness ==
  \E v \in alive, w \in alive :
    /\ v # w
    /\ size_[v] >= 1 /\ Live(v) = Live(w)
    /\ capacity_[v] > size_[v] /\ capacity_[v] # capacity_[w]
    /\ a_[v][size_[v] + 1] # Default
    /\ OpEq(Obj(v), Obj(w), FALSE)

\* s is before t in the lexicographic order
LexLess(s, t) ==
  \E k \in 0..Len(s) :
    /\ k <= Len(t)
    /\ SubSeq(s, 1, k) = SubSeq(t, 1, k)
    /\ \/ k = Len(s) /\ k < Len(t)
       \/ k < Len(s) /\ k < Len(t) /\ s[k + 1] < t[k + 1]

\* C17: operator< is the lexicographic order of the live element sequences
\* (a proper prefix is less), a <= b iff not (b < a), a > b iff b < a,
\* a >= b iff not (a < b), and exactly one of a < b, a == b, a > b holds.
C17_Ordering ==
  \A v \in alive, w \in alive :
    LET a == Obj(v)
        b == Obj(w)
        lt == OpLt(a, b)
        eq == OpEq(a, b, v = w)
        gt == OpGt(a, b)
    IN /\ lt <=> LexLess(Live(v), Live(w))
       /\ OpLe(a, b) <=> ~OpLt(b, a)
       /\ gt <=> OpLt(b, a)
       /\ OpGe(a, b) <=> ~lt
       /\ lt \/ eq \/ gt
       /\ ~(lt /\ eq) /\ ~(lt /\ gt) /\ ~(eq /\ gt)

\* one container holds a proper, non-empty prefix of the other and compares
\* less than it
C17_Witness ==
  \E v \in alive, w \in alive :
    /\ size_[v] >= 1 /\ size_[v] < size_[w]
    /\ Live(v) = SubSeq(Live(w), 1, size_[v])
    /\ OpLt(Obj(v), Obj(w)) /\ ~OpLt(Obj(w), Obj(v))

\* C18: swap exchanges the buffers, sizes and capacities of two containers
\* as wholes: afterwards each one has the other's former size, capacity and
\* buffer, slot for slot, and swapping again restores both.
C18_Swap ==
  [][\A v \in Vec, o \in Vec :
       (Did("swap", v)' /\ last'.o = o) =>
         /\ size_'[v] = size_[o] /\ size_'[o] = size_[v]
         /\ capacity_'[v] = capacity_[o] /\ capacity_'[o] = capacity_[v]
         /\ a_'[v] = a_[o] /\ a_'[o] = a_[v]
         /\ Live(v)' = Live(o) /\ Live(o)' = Live(v)
         /\ LET again == swap(Obj(v)', Obj(o)')
            IN again.obj = Obj(v) /\ again.other = Obj(o)]_vars

\* two different containers of different size and capacity were swapped, and
\* the one that was the argument now holds an element that is not Type{}
C18_Witness ==
  \E v \in Vec :
    /\ Did("swap", v) /\ last.o # v
    /\ size_[v] >= 1 /\ size_[last.o] >= 1
    /\ size_[v] # size_[last.o] /\ capacity_[v] # capacity_[last.o]
    /\ a_[last.o][1] # Default

\* what a container reports: its size, its capacity and its elements
Observe(c) == <<GetSize(c), GetCapacity(c), Elems(c)>>

\* the outcomes of one and the same call made on the container p.c and on
\* its twin p.d
Calls(p) ==
  {[c |-> PushBack(p.c, item, ok), d |-> PushBack(p.d, item, ok)] :
     item \in Type, ok \in BOOLEAN}
  \cup
  {[c |-> Insert(p.c, pos, value, ok, mv),
    d |-> Insert(p.d, pos, value, ok, mv)] :
     pos \in {i \in 0..Depth : i <= GetSize(p.c) /\ i <= GetSize(p.d)},
     value \in Type, ok \in BOOLEAN, mv \in BOOLEAN}
  \cup
  {[c |-> Resize(p.c, n, ok), d |-> Resize(p.d, n, ok)] :
     n \in 0..Depth, ok \in BOOLEAN}
  \cup
  {[c |-> Reserve(p.c, n, ok), d |-> Reserve(p.d, n, ok)] :
     n \in 0..Depth, ok \in BOOLEAN}
  \cup
  {[c |-> Done(Clear(p.c), 0), d |-> Done(Clear(p.d), 0)]}
  \cup
  {[c |-> CopyCtor(p.c, ok), d |-> CopyCtor(p.d, ok)] : ok \in BOOLEAN}
  \cup
  {[c |-> Assign(DefaultCtor, p.c, FALSE, ok),
    d |-> Assign(DefaultCtor, p.d, FALSE, ok)] : ok \in BOOLEAN}

\* the pairs of containers that up to k calls in a row lead to from the
\* pairs P
RECURSIVE Futures(_, _)
Futures(k, P) ==
  IF k = 0 THEN P
  ELSE P \cup Futures(k - 1,
                      UNION {{[c |-> r.c.obj, d |-> r.d.obj] : r \in Calls(p)}
                             : p \in P})

\* every comparison operator gives the same answer for c and for d, on
\* either side of x
SameComparisons(c, d, x) ==
  /\ OpEq(c, x, FALSE) = OpEq(d, x, FALSE) /\ OpEq(x, c, FALSE) = OpEq(x, d, FALSE)
  /\ OpNe(c, x, FALSE) = OpNe(d, x, FALSE) /\ OpNe(x, c, FALSE) = OpNe(x, d, FALSE)
  /\ OpLt(c, x) = OpLt(d, x) /\ OpLt(x, c) = OpLt(x, d)
  /\ OpLe(c, x) = OpLe(d, x) /\ OpLe(x, c) = OpLe(x, d)
  /\ OpGt(c, x) = OpGt(d, x) /\ OpGt(x, c) = OpGt(x, d)
  /\ OpGe(c, x) = OpGe(d, x) /\ OpGe(x, c) = OpGe(x, d)

\* C19: a moved-from container cannot be told from a default-constructed
\* one: after any PushBack, Insert, Resize, Reserve, Clear and copy calls made
\* on both, up to Depth in a row, the two report the same size, capacity and
\* elements, every call has the same outcome on both, and every comparison
\* gives the same answer for both.
C19_MovedFromIsDefault ==
  Did("MoveCtor", last.v) =>
    \A p \in Futures(Depth, {[c |-> Obj(last.o), d |-> DefaultCtor]}) :
      /\ Observe(p.c) = Observe(p.d)
      /\ OpEq(p.c, p.d, FALSE)
      /\ \A x \in {DefaultCtor, Obj(last.v), p.d} : SameComparisons(p.c, p.d, x)
      /\ \A r \in Calls(p) :
           /\ r.c.thrown = r.d.thrown /\ r.c.allocs = r.d.allocs
           /\ r.c.ret = r.d.ret

\* the source of a move still holds a buffer with an element that is not
\* Type{}, and calls made on it and on a default-constructed container lead
\* to containers of two or more elements
C19_Witness ==
  /\ Did("MoveCtor", last.v)
  /\ size_[last.o] = 0 /\ capacity_[last.o] = 0
  /\ Len(a_[last.o]) >= 1 /\ a_[last.o][1] # Default
  /\ \E p \in Futures(Depth, {[c |-> Obj(last.o), d |-> DefaultCtor]}) :
       GetSize(p.c) >= 2 /\ p.c.a_[1] # p.c.a_[2]

\* C20: in every reachable state every container's buffer has at least as
\* many allocated slots as its recorded capacity, and its size is at most
\* its capacity, so every index below the size is a slot of the buffer.
C20_CapacityIsAllocated ==
  \A v \in alive :
    /\ capacity_[v] <= Len(a_[v])
    /\ size_[v] <= capacity_[v]
    /\ \A i \in 1..size_[v] : i \in DOMAIN a_[v]

\* a moved-from container, whose buffer is larger than its recorded
\* capacity, was swapped with a container that holds elements
C20_Witness ==
  \E v \in alive :
    /\ Did("swap", v) /\ last.o # v /\ last.o \in alive
    /\ capacity_[v] = 0 /\ Len(a_[v]) >= 1
    /\ size_[last.o] >= 1 /\ capacity_[last.o] > size_[last.o]

====
